---- MODULE Spec2Model ----
(***************************************************************************)
(* Model of the khoz-server email candidate engine.                        *)
(*                                                                         *)
(*   - permute (src/server/index.js): webhook-name extraction, the pattern *)
(*     generator generateRankedEmails, custom names, sort and dedup.       *)
(*   - processMultipleDomains (src/unnamed/part_006): the sequential       *)
(*     multi-domain orchestrator around permute.                           *)
(*   - the discovery and verification controllers (src/unnamed/part_001,   *)
(*     src/controllers/emailVerificationController.js) over the            *)
(*     DiscoverySession and EmailDiscovery collections: every database     *)
(*     operation a handler awaits is a step, so that requests interleave   *)
(*     as they do on the server.                                           *)
(*                                                                         *)
(* Strings are sequences of one-character strings, so that trimming,       *)
(* splitting, lower-casing, prefix stripping and concatenation are         *)
(* computed as the code computes them.                                     *)
(***************************************************************************)
EXTENDS Integers, Sequences, FiniteSets, TLC

(***************************************************************************)
(* Bounds of the model.                                                    *)
(***************************************************************************)
MaxNames == 2
MaxCustom == 1
MaxFileDomains == 1
MaxSessions == 1
MaxRequests == 3

(***************************************************************************)
(* String helpers (JavaScript String methods used by the code).            *)
(***************************************************************************)
StartsWith(s, p) == Len(s) >= Len(p) /\ SubSeq(s, 1, Len(p)) = p

StripPrefix(s, p) == IF StartsWith(s, p) THEN SubSeq(s, Len(p) + 1, Len(s)) ELSE s

Includes(s, p) == \E k \in 1..(Len(s) - Len(p) + 1) : SubSeq(s, k, k + Len(p) - 1) = p

LowerChar(c) ==
  CASE c = "A" -> "a" [] c = "D" -> "d" [] c = "F" -> "f" [] c = "I" -> "i"
    [] c = "J" -> "j" [] c = "O" -> "o" [] c = "P" -> "p" [] c = "W" -> "w"
    [] OTHER -> c

toLowerCase(s) == [k \in 1..Len(s) |-> LowerChar(s[k])]

RECURSIVE trimStart(_)
trimStart(s) == IF s # <<>> /\ Head(s) = " " THEN trimStart(Tail(s)) ELSE s

RECURSIVE trimEnd(_)
trimEnd(s) ==
  IF s # <<>> /\ s[Len(s)] = " " THEN trimEnd(SubSeq(s, 1, Len(s) - 1)) ELSE s

trim(s) == trimEnd(trimStart(s))

Indexes(s) == [k \in 1..Len(s) |-> k]

\* s.split(/\s+/) on a trimmed string: the maximal runs of non-blanks, or one
\* empty piece for the empty string
splitBlanks(s) ==
  LET starts == SelectSeq(Indexes(s),
                  LAMBDA k : s[k] # " " /\ (k = 1 \/ s[k - 1] = " "))
      ends == SelectSeq(Indexes(s),
                LAMBDA k : s[k] # " " /\ (k = Len(s) \/ s[k + 1] = " "))
  IN IF s = <<>> THEN << <<>> >>
     ELSE [j \in 1..Len(starts) |-> SubSeq(s, starts[j], ends[j])]

\* charAt(0) left out: the whole token
charAt0_whole(s) == s

charAt0(s) == IF s = <<>> THEN <<>> ELSE <<s[1]>>

Digits == <<"0", "1", "2", "3", "4", "5", "6", "7", "8", "9">>

\* template-literal rendering of an integer 0..99
numToString(n) ==
  IF n < 10 THEN <<Digits[n + 1]>>
  ELSE <<Digits[(n \div 10) + 1], Digits[(n % 10) + 1]>>

At == <<"@">>
Http == <<"h", "t", "t", "p">>
HttpScheme == <<"h", "t", "t", "p", ":", "/", "/">>
HttpsScheme == <<"h", "t", "t", "p", "s", ":", "/", "/">>
SchemeSep == <<":", "/", "/">>
Www == <<"w", "w", "w", ".">>
NullWord == <<"n", "u", "l", "l">>

(***************************************************************************)
(* JSON values: null or a string.                                          *)
(***************************************************************************)
JNull == [t |-> "null", s |-> <<>>]
JStr(s) == [t |-> "str", s |-> s]

(***************************************************************************)
(* permute, src/server/index.js                                            *)
(***************************************************************************)

\* line 8
cleanDomainOf(domain) ==
  LET s1 == IF StartsWith(domain, HttpsScheme) THEN StripPrefix(domain, HttpsScheme)
            ELSE StripPrefix(domain, HttpScheme)
      s2 == StripPrefix(s1, Www)
  IN IF s2 # <<>> /\ s2[Len(s2)] = "/" THEN SubSeq(s2, 1, Len(s2) - 1) ELSE s2

\* lines 20-22 and 31-33: Object.values(parsedJson).filter(...).map(toString)
namesOfValues(values) ==
  LET keep(v) == v.t # "null" /\ v.s # NullWord /\ trim(v.s) # <<>>
      kept == SelectSeq(values, keep)
  IN [k \in 1..Len(kept) |-> kept[k].s]

\* lines 10-45
webhookNamesOf(data) ==
  IF (~data.usePersonalInfo) /\ data.webhookResponse.kind # "none"
  THEN CASE data.webhookResponse.kind = "json" -> namesOfValues(data.webhookResponse.values)
         [] data.webhookResponse.kind = "markdown" -> namesOfValues(data.webhookResponse.values)
         [] OTHER -> <<>>
  ELSE <<>>

Cand(local, dom, conf) == [email |-> local \o At \o dom, confidence |-> conf]

\* lines 52-102: the candidates pushed for one name
personEmailsOf(fullName, domain, cleanDomain, useAdvancedEmails, rnd) ==
  LET nameParts == splitBlanks(trim(fullName))
      firstName == toLowerCase(nameParts[1])
      lastName == toLowerCase(nameParts[Len(nameParts)])
      firstInitial == charAt0(firstName)
      lastInitial == charAt0(lastName)
      highConfidence == <<
        Cand(firstName \o <<".">> \o lastName, cleanDomain, 95),
        Cand(firstName, cleanDomain, 90),
        Cand(firstName \o lastName, cleanDomain, 85),
        Cand(firstInitial \o lastName, cleanDomain, 80),
        Cand(lastName, cleanDomain, 75) >>
      mediumConfidence == <<
        Cand(firstName \o <<"-">> \o lastName, domain, 70),
        Cand(firstName \o <<"_">> \o lastName, domain, 65),
        Cand(firstInitial \o <<".">> \o lastName, domain, 60),
        Cand(firstInitial \o lastInitial, domain, 55),
        Cand(firstName \o firstInitial, domain, 50) >>
      lowerConfidence == <<
        Cand(firstInitial \o <<"-">> \o lastName, domain, 45),
        Cand(firstInitial \o <<"_">> \o lastName, domain, 40),
        Cand(firstName \o lastInitial, domain, 35),
        Cand(lastName \o firstInitial, domain, 30),
        Cand(firstInitial \o <<".">> \o firstInitial, domain, 25) >>
      advancedPatterns == <<
        Cand(firstName \o lastName \o firstInitial, domain, 20),
        Cand(lastName \o firstName, domain, 15),
        Cand(firstInitial \o lastName \o lastInitial, domain, 10),
        Cand(firstName \o lastName \o numToString(rnd), domain, 5) >>
  IN (IF useAdvancedEmails THEN advancedPatterns ELSE <<>>)
       \o highConfidence \o mediumConfidence \o lowerConfidence

\* the random-suffix pattern tagged 50 instead of 5
RECURSIVE allEmailPatternsOf_suffixAt50(_, _, _, _, _, _)
allEmailPatternsOf_suffixAt50(names, domain, cleanDomain, useAdvancedEmails, rnd, k) ==
  IF k > Len(names) THEN <<>>
  ELSE LET person == personEmailsOf(names[k], domain, cleanDomain,
                                    useAdvancedEmails, rnd[k])
       IN [n \in 1..Len(person) |->
             IF person[n].confidence = 5
             THEN [person[n] EXCEPT !.confidence = 50]
             ELSE person[n]]
            \o allEmailPatternsOf_suffixAt50(names, domain, cleanDomain,
                                             useAdvancedEmails, rnd, k + 1)

\* lines 49-105: names.forEach(...) filling allEmailPatterns
RECURSIVE allEmailPatternsOf(_, _, _, _, _, _)
allEmailPatternsOf(names, domain, cleanDomain, useAdvancedEmails, rnd, k) ==
  IF k > Len(names) THEN <<>>
  ELSE personEmailsOf(names[k], domain, cleanDomain, useAdvancedEmails, rnd[k])
         \o allEmailPatternsOf(names, domain, cleanDomain, useAdvancedEmails, rnd, k + 1)

Max(S) == CHOOSE x \in S : \A y \in S : y <= x

Min(S) == CHOOSE x \in S : \A y \in S : x <= y

\* the sort left out
sortByConfidence_unsorted(list) == list

Reverse(s) == [k \in 1..Len(s) |-> s[Len(s) + 1 - k]]

\* a sort that is not stable: candidates of equal confidence change places
RECURSIVE sortByConfidence_tiesReversed(_)
sortByConfidence_tiesReversed(list) ==
  IF list = <<>> THEN <<>>
  ELSE LET top == Max({list[k].confidence : k \in 1..Len(list)})
       IN Reverse(SelectSeq(list, LAMBDA c : c.confidence = top))
            \o sortByConfidence_tiesReversed(
                 SelectSeq(list, LAMBDA c : c.confidence < top))

\* Array.prototype.sort((a, b) => b.confidence - a.confidence): stable, so the
\* candidates of the highest confidence in their order, then the rest sorted
RECURSIVE sortByConfidence(_)
sortByConfidence(list) ==
  IF list = <<>> THEN <<>>
  ELSE LET top == Max({list[k].confidence : k \in 1..Len(list)})
       IN SelectSeq(list, LAMBDA c : c.confidence = top)
            \o sortByConfidence(SelectSeq(list, LAMBDA c : c.confidence < top))

\* a seen-set pass that drops nothing
firstOccurrences_keepAll(list) == list

\* a pass in which a later duplicate replaces the earlier one
firstOccurrences_lastWins(list) ==
  LET kept == SelectSeq(Indexes(list),
                LAMBDA k : \A j \in (k + 1)..Len(list) : list[j].email # list[k].email)
  IN [n \in 1..Len(kept) |-> list[kept[n]]]

\* the forEach with the seenEmails set: the first occurrence of an email wins
firstOccurrences(list) ==
  LET kept == SelectSeq(Indexes(list),
                LAMBDA k : \A j \in 1..(k - 1) : list[j].email # list[k].email)
  IN [n \in 1..Len(kept) |-> list[kept[n]]]

uniqueEmailsWithConfidenceOf(list) == firstOccurrences(sortByConfidence(list))

\* lines 48-124
generateRankedEmails(names, domain, cleanDomain, useAdvancedEmails, rnd) ==
  uniqueEmailsWithConfidenceOf(
    allEmailPatternsOf(names, domain, cleanDomain, useAdvancedEmails, rnd, 1))

\* custom names at the confidence the session-based generator gives them
customEmailsOf_confidence90(selectedCustomNames, cleanDomain) ==
  [k \in 1..Len(selectedCustomNames) |-> Cand(selectedCustomNames[k], cleanDomain, 90)]

\* lines 142-145
customEmailsOf(selectedCustomNames, cleanDomain) ==
  [k \in 1..Len(selectedCustomNames) |-> Cand(selectedCustomNames[k], cleanDomain, 95)]

\* line 140 evaluates selectedCustomNames.length, line 142 calls .map: a
\* TypeError when the parsed value is null or not an array
permuteThrows(data) == data.useCustomNames /\ data.selectedCustomNames.kind = "nonarray"

customActive(data) ==
  data.useCustomNames /\ data.selectedCustomNames.kind = "array"
    /\ Len(data.selectedCustomNames.items) > 0

\* lines 126-153: allEmails before the final sort
allEmailsOf(data) ==
  LET cleanDomain == cleanDomainOf(data.domain)
      names == webhookNamesOf(data)
      webhookEmails ==
        IF Len(names) > 0
        THEN generateRankedEmails(names, data.domain, cleanDomain,
                                  data.useAdvancedEmails, data.rnd)
        ELSE <<>>
      customEmails ==
        IF customActive(data)
        THEN customEmailsOf(data.selectedCustomNames.items, cleanDomain)
        ELSE <<>>
  IN webhookEmails \o customEmails

\* lines 4-170
permute(data) == uniqueEmailsWithConfidenceOf(allEmailsOf(data))


(***************************************************************************)
(* processMultipleDomains, src/unnamed/part_006                            *)
(***************************************************************************)

\* new URL(domain).hostname: the authority between "://" and the next "/"
hostnameOf(url) ==
  LET sep == Min({k \in 1..(Len(url) - 2) : SubSeq(url, k, k + 2) = SchemeSep})
      rest == SubSeq(url, sep + 3, Len(url))
      slashes == {k \in 1..Len(rest) : rest[k] = "/"}
  IN IF slashes = {} THEN rest ELSE SubSeq(rest, 1, Min(slashes) - 1)

\* lines 492-505
cleanListedDomain(domain) ==
  IF Includes(domain, SchemeSep)
  THEN StripPrefix(
         hostnameOf(IF StartsWith(domain, Http) THEN domain ELSE HttpsScheme \o domain),
         Www)
  ELSE StripPrefix(domain, Www)

\* [...new Set(allDomains)]: first occurrences, in order
setOrder(list) ==
  LET kept == SelectSeq(Indexes(list),
                LAMBDA k : \A j \in 1..(k - 1) : list[j] # list[k])
  IN [n \in 1..Len(kept) |-> list[kept[n]]]

\* lines 479-505
uniqueDomainsOf(fd, fileDomains) ==
  LET allDomains ==
        (IF trim(fd.domain) # <<>> THEN <<toLowerCase(trim(fd.domain))>> ELSE <<>>)
          \o fileDomains
      valid(d) == d # <<>> /\ Includes(d, <<".">>) /\ ~StartsWith(d, <<"#">>)
      kept == SelectSeq(setOrder(allDomains), valid)
  IN [k \in 1..Len(kept) |-> cleanListedDomain(kept[k])]

FallbackPrefix ==
  <<"F","a","l","l","b","a","c","k"," ","d","a","t","a"," ","g","e","n","e","r",
    "a","t","e","d"," ","f","o","r"," ">>

FallbackSuffix ==
  <<" ","d","u","e"," ","t","o"," ","A","P","I"," ","l","i","m","i","t","a","t",
    "i","o","n","s">>

\* lines 685-693: Object.values order Founder, CEO, CTO, COO, note
generateFallbackData(domain) ==
  <<JNull, JNull, JNull, JNull, JStr(FallbackPrefix \o domain \o FallbackSuffix)>>

NoResponse == [kind |-> "none", values |-> <<>>, note |-> "none"]

\* lines 569-573
parsedResponse(values) == [kind |-> "json", values |-> values, note |-> "none"]

\* lines 577-582 and 589-594
fallbackResponse(domain, note) ==
  [kind |-> "json", values |-> generateFallbackData(domain), note |-> note]

\* lines 518-595: the webhookResponse left by one outcome of the collaborator
webhookResponseOf(domain, outcome) ==
  CASE outcome.kind = "neterr" -> fallbackResponse(domain, "Using fallback data due to API error")
    [] outcome.kind = "bodyerr" -> fallbackResponse(domain, "Using fallback data due to API error")
    [] outcome.kind = "notok" -> NoResponse
    [] outcome.kind = "nocontent" -> NoResponse
    [] outcome.kind = "badjson" -> fallbackResponse(domain, "Using fallback data due to parsing error")
    [] OTHER -> parsedResponse(outcome.values)

\* a parse that never throws
dataThrows_never(fd) == FALSE

\* line 608: JSON.parse(formData.selectedCustomNames) throws a SyntaxError
dataThrows(fd) == fd.selectedCustomNames.kind = "unparsable"

\* lines 598-611
dataOf(fd, domain, webhookResponse, rnd) ==
  [domain |-> domain,
   useCustomNames |-> fd.useCustomNames,
   usePersonalInfo |-> fd.usePersonalInfo,
   useAdvancedEmails |-> fd.useAdvancedEmails,
   selectedCustomNames |->
     IF fd.selectedCustomNames.kind = "absent"
     THEN [kind |-> "array", items |-> <<>>]
     ELSE fd.selectedCustomNames,
   webhookResponse |-> webhookResponse,
   rnd |-> rnd]

\* lines 615-621
completedResult(domain, emails, webhookResponse) ==
  [domain |-> domain, emails |-> emails, webhookResponse |-> webhookResponse,
   status |-> "completed", error |-> "none"]

\* lines 637-644
errorResult(domain, message) ==
  [domain |-> domain, emails |-> <<>>, webhookResponse |-> NoResponse,
   status |-> "error", error |-> message]


(***************************************************************************)
(* generateEmails and the session documents, src/unnamed/part_001 and      *)
(* the DiscoverySession model (src/unnamed/part_000)                       *)
(***************************************************************************)
GenCand(local, domain, conf, method) ==
  [email |-> local \o At \o domain, confidence |-> conf, generationMethod |-> method]

\* a string field of formData that is set and not empty
present(s) == s # <<>>

\* part_001 lines 7-64: the candidates in the order they are pushed
generatedCandidatesOf(fd, domain) ==
  LET f == toLowerCase(fd.firstName)
      l == toLowerCase(fd.lastName)
      m == toLowerCase(fd.middleName)
      nick == toLowerCase(fd.nickName)
      fl == present(fd.firstName) /\ present(fd.lastName)
      personal ==
        IF fd.usePersonalInfo
        THEN (IF fl
              THEN << GenCand(f \o <<".">> \o l, domain, 85, "personal_info"),
                      GenCand(f \o l, domain, 80, "personal_info"),
                      GenCand(charAt0(f) \o l, domain, 75, "personal_info"),
                      GenCand(f \o <<"_">> \o l, domain, 70, "personal_info") >>
              ELSE <<>>)
             \o (IF present(fd.firstName)
                 THEN <<GenCand(f, domain, 60, "personal_info")>> ELSE <<>>)
             \o (IF present(fd.lastName)
                 THEN <<GenCand(l, domain, 55, "personal_info")>> ELSE <<>>)
             \o (IF fl /\ present(fd.middleName)
                 THEN <<GenCand(f \o <<".">> \o m \o <<".">> \o l, domain, 65,
                                "personal_info")>>
                 ELSE <<>>)
        ELSE <<>>
      nickname ==
        IF fd.useNickName /\ present(fd.nickName)
        THEN <<GenCand(nick, domain, 70, "nickname")>>
               \o (IF present(fd.lastName)
                   THEN <<GenCand(nick \o <<".">> \o l, domain, 65, "nickname")>>
                   ELSE <<>>)
        ELSE <<>>
      custom ==
        IF fd.useCustomNames /\ present(fd.customName)
        THEN <<GenCand(toLowerCase(fd.customName), domain, 90, "custom_names")>>
        ELSE <<>>
      selected ==
        [k \in 1..Len(fd.selectedCustomNames) |->
           GenCand(toLowerCase(fd.selectedCustomNames[k]), domain, 90, "custom_names")]
      advanced ==
        IF fd.useAdvancedEmails
        THEN (IF fl
              THEN << GenCand(f \o <<"-">> \o l, domain, 70, "advanced_patterns"),
                      GenCand(f \o charAt0(l), domain, 65, "advanced_patterns"),
                      GenCand(charAt0(f) \o <<".">> \o l, domain, 75, "advanced_patterns") >>
              ELSE <<>>)
             \o (IF present(fd.firstName)
                 THEN << GenCand(f \o <<"1">>, domain, 50, "advanced_patterns"),
                         GenCand(f \o <<"2">>, domain, 45, "advanced_patterns") >>
                 ELSE <<>>)
        ELSE <<>>
  IN personal \o nickname \o custom \o selected \o advanced

\* part_001 lines 66-71: filter on findIndex (the first pushed candidate of an
\* email stays), then the sort
generateEmails(fd, domain) ==
  sortByConfidence(firstOccurrences(generatedCandidatesOf(fd, domain)))

\* part_001 lines 196-201: threshold filter, then slice(0, maxEmailsPerDomain)
limitedEmailsOf(session, domain) ==
  LET generatedEmails == generateEmails(session.formData, domain)
      filteredEmails ==
        SelectSeq(generatedEmails,
                  LAMBDA e : e.confidence >= session.config.confidenceThreshold)
  IN SubSeq(filteredEmails, 1,
            Min({Len(filteredEmails), session.config.maxEmailsPerDomain}))

DefaultMaxEmailsPerDomain == 100

DefaultConfidenceThreshold == 25

\* config.x || dflt: an absent value and 0 both give the default
orDefault(x, dflt) == IF x.given /\ x.value # 0 THEN x.value ELSE dflt

\* the schema setters lowercase: true, trim: true
lowerTrim(s) == toLowerCase(trim(s))

\* part_001 lines 97-121: new DiscoverySession(...), save, startProcessing
newSession(userId, domains, fd, config) ==
  [userId |-> userId,
   status |-> "processing",
   isDeleted |-> FALSE,
   domains |-> [k \in 1..Len(domains) |->
                  [domain |-> lowerTrim(domains[k]), status |-> "pending",
                   emailsCount |-> 0, errorMessage |-> "none"]],
   formData |-> fd,
   config |-> [maxEmailsPerDomain |->
                 orDefault(config.maxEmailsPerDomain, DefaultMaxEmailsPerDomain),
               confidenceThreshold |->
                 orDefault(config.confidenceThreshold, DefaultConfidenceThreshold)],
   progress |-> [totalDomains |-> Len(domains), processedDomains |-> 0,
                 currentDomainIndex |-> 0, totalEmailsDiscovered |-> 0],
   errors |-> <<>>]

\* part_001 lines 204-218 with the defaults of the EmailDiscovery schema
emailDocumentOf(emailData, domain, userId, sessionId) ==
  [email |-> lowerTrim(emailData.email),
   domain |-> lowerTrim(domain),
   confidence |-> emailData.confidence,
   generationMethod |-> emailData.generationMethod,
   discoveredBy |-> userId,
   discoverySession |-> sessionId,
   isVerified |-> FALSE,
   deliverable |-> FALSE,
   status |-> "discovered",
   errorMessage |-> "none",
   isDeleted |-> FALSE]

\* updateVerification that saves status 'verified' whatever the result is
verifiedDocument_alwaysVerified(doc, deliverable) ==
  [doc EXCEPT !.isVerified = TRUE,
              !.deliverable = deliverable,
              !.status = "verified"]

\* EmailDiscovery.js lines 138-151: the fields updateVerification saves
verifiedDocument(doc, deliverable) ==
  [doc EXCEPT !.isVerified = TRUE,
              !.deliverable = deliverable,
              !.status = IF deliverable THEN "verified" ELSE "invalid"]

\* part_000 lines 1173-1200: completeDomain on the handler's copy of the
\* session; save() writes the paths it modified
completedSession(stored, copy, domainIndex, emailsCount, errorMessage) ==
  LET k == domainIndex + 1
      processed == copy.progress.processedDomains + 1
      failed == errorMessage # "none"
  IN [stored EXCEPT
        !.domains[k].status = IF failed THEN "error" ELSE "completed",
        !.domains[k].emailsCount = emailsCount,
        !.domains[k].errorMessage = errorMessage,
        !.progress.processedDomains = processed,
        !.progress.totalEmailsDiscovered =
           copy.progress.totalEmailsDiscovered + emailsCount,
        !.progress.currentDomainIndex = domainIndex + 1,
        !.errors = IF failed
                   THEN Append(@, [domain |-> copy.domains[k].domain,
                                   error |-> errorMessage])
                   ELSE @,
        !.status = IF processed >= copy.progress.totalDomains
                   THEN "completed" ELSE @]

RemoveAt(seq, n) == SubSeq(seq, 1, n - 1) \o SubSeq(seq, n + 1, Len(seq))


(***************************************************************************)
(* Input pools.                                                            *)
(***************************************************************************)
SeqsUpTo(S, n) == UNION {[1..m -> S] : m \in 0..n}

NameJoDo == <<"J", "o", " ", "D", "o">>
NameJD == <<"J", " ", "D">>
NameDoJo == <<" ", "d", "o", " ", " ", "J", "O", " ">>
NameJo == <<"J", "o">>

DomPlain == <<"a", ".", "c", "o">>
DomWww == <<"w", "w", "w", ".", "a", ".", "c", "o">>
DomUrl == <<"h", "t", "t", "p", "s", ":", "/", "/", "a", ".", "c", "o", "/">>
DomOther == <<"b", ".", "i", "o">>
DomField == <<"h", "t", "t", "p", "s", ":", "/", "/", "A", ".", "c", "o", "/", " ">>

ValuePool == {JNull, JStr(NameJoDo), JStr(NameJD), JStr(NameDoJo)}

MarkdownValuePool == {JStr(NullWord), JStr(NameJoDo)}

CustomPool == {<<"j", "o">>, <<"J", "o">>}

RandChoices == {7, 42}

NoRnd == [k \in 1..MaxNames |-> 0]

\* one Math.random() draw per name; drawn only when line 97 is reached
RndChoicesFor(advanced) ==
  IF advanced THEN [1..MaxNames -> RandChoices] ELSE {NoRnd}

GarbageResponse == [kind |-> "garbage", values |-> <<>>, note |-> "none"]

WebhookResponses ==
  {NoResponse, GarbageResponse,
   [kind |-> "json", values |-> <<JStr(NameJo)>>, note |-> "none"]}
    \cup {[kind |-> "json", values |-> v, note |-> "none"] :
            v \in SeqsUpTo(ValuePool, MaxNames)}
    \cup {[kind |-> "markdown", values |-> v, note |-> "none"] :
            v \in SeqsUpTo(MarkdownValuePool, MaxNames)}

CustomNameValues ==
  {[kind |-> "array", items |-> c] : c \in SeqsUpTo(CustomPool, MaxCustom)}
    \cup {[kind |-> "nonarray", items |-> <<>>]}

\* useCustomNames with selectedCustomNames
CustomSettings ==
  {[use |-> TRUE, names |-> sc] : sc \in CustomNameValues}
    \cup {[use |-> FALSE, names |-> sc] :
            sc \in {[kind |-> "array", items |-> <<>>],
                    [kind |-> "array", items |-> <<<<"j", "o">>>>],
                    [kind |-> "nonarray", items |-> <<>>]}}

\* usePersonalInfo with webhookResponse
WebhookSettings ==
  {[personal |-> FALSE, response |-> w] : w \in WebhookResponses}
    \cup {[personal |-> TRUE, response |-> w] :
            w \in {NoResponse,
                   [kind |-> "json", values |-> <<JStr(NameJoDo)>>, note |-> "none"]}}

PermuteInputs ==
  {[domain |-> d, useCustomNames |-> c.use, usePersonalInfo |-> w.personal,
    useAdvancedEmails |-> ua, selectedCustomNames |-> c.names,
    webhookResponse |-> w.response, rnd |-> NoRnd] :
     d \in {DomPlain, DomUrl}, ua \in BOOLEAN, c \in CustomSettings,
     w \in WebhookSettings}

\* answers of the name-resolution collaborator: Founder, CEO, CTO, COO
Answers ==
  {<<JStr(NameJoDo), JNull, JNull, JNull>>,
   <<JStr(NameDoJo), JStr(<<" ">>), JStr(NameJD), JStr(NullWord)>>}

\* formData.useCustomNames with formData.selectedCustomNames
FormCustomSettings ==
  {[use |-> FALSE, names |-> [kind |-> "absent", items |-> <<>>]],
   [use |-> TRUE, names |-> [kind |-> "array", items |-> <<<<"j", "o">>>>]],
   [use |-> TRUE, names |-> [kind |-> "nonarray", items |-> <<>>]],
   [use |-> FALSE, names |-> [kind |-> "nonarray", items |-> <<>>]],
   [use |-> TRUE, names |-> [kind |-> "unparsable", items |-> <<>>]],
   [use |-> FALSE, names |-> [kind |-> "unparsable", items |-> <<>>]]}

FormDatas ==
  {[domain |-> d, useCustomNames |-> c.use, usePersonalInfo |-> up,
    useAdvancedEmails |-> ua, selectedCustomNames |-> c.names] :
     d \in {<<>>, DomField}, up \in BOOLEAN, ua \in BOOLEAN,
     c \in FormCustomSettings}

\* the route calls processMultipleDomains only with a non-empty list (line 320)
FileDomainLists == SeqsUpTo({DomWww, DomOther}, MaxFileDomains) \ {<<>>}

DomUpper == <<"A", ".", "c", "o", " ">>

Users == {"u", "v"}

NoFormFields ==
  [firstName |-> <<>>, lastName |-> <<>>, nickName |-> <<>>, middleName |-> <<>>,
   customName |-> <<>>, useNickName |-> FALSE, useCustomNames |-> FALSE,
   usePersonalInfo |-> FALSE, useAdvancedEmails |-> FALSE,
   selectedCustomNames |-> <<>>]

\* first and last name, a nickname and a selected custom name equal to the
\* first name, advanced patterns
FormFull ==
  [NoFormFields EXCEPT !.firstName = <<"J", "o">>, !.lastName = <<"D", "o">>,
                       !.nickName = <<"J", "O">>, !.useNickName = TRUE,
                       !.usePersonalInfo = TRUE, !.useAdvancedEmails = TRUE,
                       !.selectedCustomNames = <<<<"j", "o">>>>]

\* a first name only
FormFirstOnly ==
  [NoFormFields EXCEPT !.firstName = <<"J", "o">>, !.usePersonalInfo = TRUE]

Given(n) == [given |-> TRUE, value |-> n]

NotGiven == [given |-> FALSE, value |-> 0]

\* req.body of POST /start: domains, formData, config
StartBodies ==
  {[domains |-> <<DomPlain, DomOther>>, formData |-> FormFull,
    config |-> [maxEmailsPerDomain |-> Given(1), confidenceThreshold |-> Given(0)]],
   [domains |-> <<DomUpper>>, formData |-> FormFirstOnly,
    config |-> [maxEmailsPerDomain |-> NotGiven, confidenceThreshold |-> Given(70)]]}

BulkOperations == {"delete", "verify", "archive"}

(***************************************************************************)
(* State.                                                                  *)
(***************************************************************************)
VARIABLES
  data,               \* permute: the argument of the last call
  pstatus,            \* permute: "idle", "returned" or "threw"
  webhookNames,       \* permute: line 10
  webhookEmails,      \* permute: line 131
  allEmails,          \* permute: line 126, before the final sort
  emails,             \* permute: the returned uniqueEmailsWithConfidence
  formData,           \* processMultipleDomains: req.body
  domainsFromFile,    \* processMultipleDomains: second argument
  uniqueDomains,      \* line 490
  i,                  \* loop index, line 512 (0-based)
  pc,                 \* position of processMultipleDomains
  results,            \* line 509
  allCombinedEmails,  \* line 510
  globalEmails,       \* responseData.globalEmails, line 668
  outcomes,           \* what the collaborator did for each domain so far
  log,                \* calls, result pushes and delays, in order
  sessions,           \* the DiscoverySession collection; _id is the index
  emailDocs,          \* the EmailDiscovery collection; _id is the index
  requests,           \* handlers suspended at an await, with their locals
  lastOp,             \* the answer sent last
  issued,             \* number of requests that created a session, suspended or wrote
  completeCalls       \* per session and domain: calls of completeDomain

pvars == <<data, pstatus, webhookNames, webhookEmails, allEmails, emails>>

bvars == <<formData, domainsFromFile, uniqueDomains, i, pc, results,
           allCombinedEmails, globalEmails, outcomes, log>>

dvars == <<sessions, emailDocs, requests, lastOp, issued, completeCalls>>

vars == <<data, pstatus, webhookNames, webhookEmails, allEmails, emails,
          formData, domainsFromFile, uniqueDomains, i, pc, results,
          allCombinedEmails, globalEmails, outcomes, log,
          sessions, emailDocs, requests, lastOp, issued, completeCalls>>

NoData ==
  [domain |-> <<>>, useCustomNames |-> FALSE, usePersonalInfo |-> FALSE,
   useAdvancedEmails |-> FALSE, selectedCustomNames |-> [kind |-> "array", items |-> <<>>],
   webhookResponse |-> NoResponse, rnd |-> NoRnd]

NoFormData ==
  [domain |-> <<>>, useCustomNames |-> FALSE, usePersonalInfo |-> FALSE,
   useAdvancedEmails |-> FALSE, selectedCustomNames |-> [kind |-> "absent", items |-> <<>>]]

PermuteIdle ==
  /\ data = NoData
  /\ pstatus = "idle"
  /\ webhookNames = <<>>
  /\ webhookEmails = <<>>
  /\ allEmails = <<>>
  /\ emails = <<>>

Op(op, user, sid, ids, code) ==
  [op |-> op, user |-> user, sid |-> sid, ids |-> ids, code |-> code]

NoOp == Op("none", "none", 0, <<>>, "none")

\* no session, no email record, no request
DiscoveryIdle ==
  /\ sessions = <<>>
  /\ emailDocs = <<>>
  /\ requests = <<>>
  /\ lastOp = NoOp
  /\ issued = 0
  /\ completeCalls = <<>>

BatchIdle ==
  /\ formData = NoFormData
  /\ domainsFromFile = <<>>
  /\ uniqueDomains = <<>>
  /\ i = 0
  /\ pc = "idle"
  /\ results = <<>>
  /\ allCombinedEmails = <<>>
  /\ globalEmails = <<>>
  /\ outcomes = <<>>
  /\ log = <<>>

(***************************************************************************)
(* permute as a step: Init draws the argument, the step is the call.       *)
(***************************************************************************)
PermuteReturns ==
  LET names == webhookNamesOf(data)
  IN /\ pstatus = "called"
     /\ ~permuteThrows(data)
     /\ pstatus' = "returned"
     /\ webhookNames' = names
     /\ webhookEmails' =
          IF Len(names) > 0
          THEN generateRankedEmails(names, data.domain, cleanDomainOf(data.domain),
                                    data.useAdvancedEmails, data.rnd)
          ELSE <<>>
     /\ allEmails' = allEmailsOf(data)
     /\ emails' = permute(data)
     /\ UNCHANGED <<data, formData, domainsFromFile, uniqueDomains, i, pc, results,
                    allCombinedEmails, globalEmails, outcomes, log>>
     /\ UNCHANGED dvars

PermuteThrowsTypeError ==
  /\ pstatus = "called"
  /\ permuteThrows(data)
  /\ pstatus' = "threw"
  /\ webhookNames' = webhookNamesOf(data)
  /\ UNCHANGED <<data, webhookEmails, allEmails, emails, formData, domainsFromFile,
                 uniqueDomains, i, pc, results, allCombinedEmails, globalEmails,
                 outcomes, log>>
  /\ UNCHANGED dvars

InitPermute ==
  /\ \E d0 \in PermuteInputs : \E r \in RndChoicesFor(d0.useAdvancedEmails) :
       data = [d0 EXCEPT !.rnd = r]
  /\ pstatus = "called"
  /\ webhookNames = <<>>
  /\ webhookEmails = <<>>
  /\ allEmails = <<>>
  /\ emails = <<>>
  /\ BatchIdle
  /\ DiscoveryIdle

NextPermute == PermuteReturns \/ PermuteThrowsTypeError

SpecPermute == InitPermute /\ [][NextPermute]_vars


(***************************************************************************)
(* processMultipleDomains as a process: one step per await.                *)
(***************************************************************************)
Call(k) == [ev |-> "call", idx |-> k]
Pushed(k) == [ev |-> "result", idx |-> k]
Delayed(k) == [ev |-> "delay", idx |-> k]

\* one Math.random() draw per name of a domain
BatchRnd == {[k \in 1..MaxNames |-> 42]}

\* lines 650-668
globalEmailsOf(combined) == uniqueEmailsWithConfidenceOf(combined)

\* lines 512-559 and 648-681: the loop test with index k, then either the
\* fetch of domain k (suspends) or the ranking of the combined list and return
LoopFrom(k, combined, lg) ==
  /\ i' = k
  /\ IF k < Len(uniqueDomains')
     THEN /\ pc' = "fetch"
          /\ log' = Append(lg, Call(k))
          /\ globalEmails' = globalEmails
     ELSE /\ pc' = "done"
          /\ log' = lg
          /\ globalEmails' = globalEmailsOf(combined)

\* lines 479-510: entry, up to the first await
Enter ==
  /\ pc = "entry"
  /\ uniqueDomains' = uniqueDomainsOf(formData, domainsFromFile)
  /\ results' = <<>>
  /\ allCombinedEmails' = <<>>
  /\ LoopFrom(0, <<>>, log)
  /\ UNCHANGED <<data, pstatus, webhookNames, webhookEmails, allEmails, emails,
                 formData, domainsFromFile, outcomes>>
  /\ UNCHANGED dvars

\* a catch that swallows the error without recording a result
CatchDomain_noPush(domain, message) ==
  /\ results' = results
  /\ allCombinedEmails' = allCombinedEmails
  /\ LoopFrom(i + 1, allCombinedEmails, log)

\* no per-domain catch: the error leaves processMultipleDomains
CatchDomain_rethrow(domain, message) ==
  /\ results' = results
  /\ allCombinedEmails' = allCombinedEmails
  /\ pc' = "threw"
  /\ UNCHANGED <<i, log, globalEmails>>

\* lines 635-645: the catch of the per-domain try, then the next iteration
CatchDomain(domain, message) ==
  /\ results' = Append(results, errorResult(domain, message))
  /\ allCombinedEmails' = allCombinedEmails
  /\ LoopFrom(i + 1, allCombinedEmails, Append(log, Pushed(i)))

\* lines 613-633: permute returned; the delay unless this is the last domain
CompleteDomain(domain, webhookResponse, d) ==
  LET out == permute(d)
  IN /\ results' = Append(results, completedResult(domain, out, webhookResponse))
     /\ allCombinedEmails' = allCombinedEmails \o out
     /\ IF i < Len(uniqueDomains) - 1
        THEN /\ pc' = "delay"
             /\ i' = i
             /\ log' = Append(log, Pushed(i))
             /\ globalEmails' = globalEmails
        ELSE LoopFrom(i + 1, allCombinedEmails \o out, Append(log, Pushed(i)))

\* lines 597-645: what follows the name resolution of domain i
AfterResolution(domain, webhookResponse, rnd) ==
  IF dataThrows(formData)
  THEN CatchDomain(domain, "SyntaxError")
  ELSE LET d == dataOf(formData, domain, webhookResponse, rnd)
       IN IF permuteThrows(d)
          THEN CatchDomain(domain, "TypeError")
          ELSE CompleteDomain(domain, webhookResponse, d)

\* lines 520-595: the collaborator settles the fetch of domain i
Resolve(o) ==
  LET domain == uniqueDomains[i + 1]
  IN /\ pc = "fetch"
     /\ UNCHANGED <<data, pstatus, webhookNames, webhookEmails, allEmails, emails,
                    formData, domainsFromFile, uniqueDomains>>
     /\ UNCHANGED dvars
     /\ outcomes' = Append(outcomes, o.kind)
     /\ \E rnd \in BatchRnd :
          AfterResolution(domain, webhookResponseOf(domain, o), rnd)

\* fetch rejects (line 586)
FetchFails == Resolve([kind |-> "neterr", values |-> <<>>])

\* response.json() rejects or choices is missing (lines 562-563, caught at 586)
BodyFails == Resolve([kind |-> "bodyerr", values |-> <<>>])

\* response.ok is false (line 561)
ResponseNotOk == Resolve([kind |-> "notok", values |-> <<>>])

\* no message content (line 565)
NoContent == Resolve([kind |-> "nocontent", values |-> <<>>])

\* the content is not JSON (line 574)
ContentUnparsable == Resolve([kind |-> "badjson", values |-> <<>>])

\* the content parses (lines 567-573)
ContentParsed == \E a \in Answers : Resolve([kind |-> "ok", values |-> a])

\* line 632: the timer of the inter-domain delay fires, next iteration
DelayElapsed ==
  /\ pc = "delay"
  /\ UNCHANGED <<data, pstatus, webhookNames, webhookEmails, allEmails, emails,
                 formData, domainsFromFile, uniqueDomains, results,
                 allCombinedEmails, outcomes>>
  /\ UNCHANGED dvars
  /\ LoopFrom(i + 1, allCombinedEmails, Append(log, Delayed(i)))

Init ==
  /\ PermuteIdle
  /\ formData \in FormDatas
  /\ domainsFromFile \in FileDomainLists
  /\ uniqueDomains = <<>>
  /\ i = 0
  /\ pc = "entry"
  /\ results = <<>>
  /\ allCombinedEmails = <<>>
  /\ globalEmails = <<>>
  /\ outcomes = <<>>
  /\ log = <<>>
  /\ DiscoveryIdle

Next ==
  \/ Enter
  \/ FetchFails
  \/ BodyFails
  \/ ResponseNotOk
  \/ NoContent
  \/ ContentUnparsable
  \/ ContentParsed
  \/ DelayElapsed

Spec == Init /\ [][Next]_vars


(***************************************************************************)
(* The discovery and verification requests.  A handler runs from one await *)
(* to the next in one step; a suspended handler keeps its locals, among    *)
(* them its own copy of the session document, in requests.                 *)
(***************************************************************************)
OutsideDiscovery == UNCHANGED <<pvars, bvars>>

NoSession ==
  newSession("none", <<>>, NoFormFields,
             [maxEmailsPerDomain |-> NotGiven, confidenceThreshold |-> NotGiven])

Request(op, user, sid, idx, eid, at, copy, deliverable) ==
  [op |-> op, user |-> user, sid |-> sid, idx |-> idx, eid |-> eid, pc |-> at,
   copy |-> copy, limited |-> <<>>, deliverable |-> deliverable,
   ids |-> <<>>, todo |-> <<>>]

\* one more request that writes can be issued
CanIssue == issued < MaxRequests

\* a lookup that does not filter on the owner
findSession_anyUser(userId, sid) ==
  /\ sid \in 1..Len(sessions)
  /\ ~sessions[sid].isDeleted

\* DiscoverySession.findOne({_id, userId, isDeleted: false})
findSession(userId, sid) ==
  /\ sid \in 1..Len(sessions)
  /\ sessions[sid].userId = userId
  /\ ~sessions[sid].isDeleted

\* EmailDiscovery.findOne({_id, discoveredBy, isDeleted: false})
findEmail(userId, eid) ==
  /\ eid \in 1..Len(emailDocs)
  /\ emailDocs[eid].discoveredBy = userId
  /\ ~emailDocs[eid].isDeleted

\* the request is answered in its first step, nothing is written
Answered(op, user, sid, ids, code) ==
  /\ lastOp' = Op(op, user, sid, ids, code)
  /\ UNCHANGED <<sessions, emailDocs, requests, issued, completeCalls>>
  /\ OutsideDiscovery

\* the handler suspends at its next await; nothing is answered yet
Suspended(request) ==
  /\ issued' = issued + 1
  /\ requests' = Append(requests, request)
  /\ UNCHANGED <<sessions, emailDocs, lastOp, completeCalls>>
  /\ OutsideDiscovery

\* the two users are interchangeable: the first session is the one of "u"
FirstUsers == IF sessions = <<>> THEN {"u"} ELSE Users

\* part_001 lines 75-142
StartDiscovery ==
  \E user \in FirstUsers, body \in StartBodies :
    /\ CanIssue
    /\ Len(sessions) < MaxSessions
    /\ sessions' = Append(sessions,
                          newSession(user, body.domains, body.formData, body.config))
    /\ completeCalls' = Append(completeCalls, [k \in 1..Len(body.domains) |-> 0])
    /\ lastOp' = Op("startDiscovery", user, Len(sessions) + 1, <<>>, "created")
    /\ issued' = issued + 1
    /\ UNCHANGED <<emailDocs, requests>>
    /\ OutsideDiscovery

\* part_001 lines 150-184: the answer of processDomain before any write
processDomainCheck(userId, sid, domainIndex) ==
  IF ~findSession(userId, sid) THEN "notFound"
  ELSE IF sessions[sid].status # "processing" THEN "notProcessing"
  ELSE IF domainIndex >= Len(sessions[sid].domains) THEN "invalidIndex"
  ELSE IF sessions[sid].domains[domainIndex + 1].status # "pending"
       THEN "alreadyProcessed"
  ELSE "proceed"

\* part_001 lines 157-184
ProcessDomainRejected ==
  \E user \in Users, sid \in 1..Len(sessions) :
    \E code \in {processDomainCheck(user, sid, idx) :
                   idx \in 0..Len(sessions[sid].domains)} \ {"proceed"} :
      Answered("processDomain", user, sid, <<>>, code)

\* part_001 lines 150-189: the session is found and the domain pending; the
\* handler marks the domain on its copy and awaits save()
ProcessDomainFound ==
  \E user \in Users, sid \in 1..Len(sessions) :
    \E idx \in 0..Len(sessions[sid].domains) :
      /\ CanIssue
      /\ processDomainCheck(user, sid, idx) = "proceed"
      /\ Suspended(Request("processDomain", user, sid, idx, 0, "saveProcessing",
                           [sessions[sid] EXCEPT !.domains[idx + 1].status = "processing"],
                           FALSE))

\* part_001 lines 189-222: save() writes the domain status; the handler
\* generates, filters and limits the emails and awaits insertMany, or
\* completeDomain when there is nothing to insert
SaveProcessing ==
  \E n \in 1..Len(requests) :
    LET r == requests[n]
        limited == limitedEmailsOf(r.copy, r.copy.domains[r.idx + 1].domain)
    IN /\ r.pc = "saveProcessing"
       /\ sessions' = [sessions EXCEPT ![r.sid].domains[r.idx + 1].status = "processing"]
       /\ requests' = [requests EXCEPT
                         ![n].pc = IF Len(limited) > 0 THEN "insertMany"
                                   ELSE "completeDomain",
                         ![n].limited = limited]
       /\ UNCHANGED <<emailDocs, lastOp, issued, completeCalls>>
       /\ OutsideDiscovery

\* part_001 lines 220-225: insertMany stored the documents
InsertMany ==
  \E n \in 1..Len(requests) :
    LET r == requests[n]
    IN /\ r.pc = "insertMany"
       /\ emailDocs' = emailDocs \o
            [k \in 1..Len(r.limited) |->
               emailDocumentOf(r.limited[k], r.copy.domains[r.idx + 1].domain,
                               r.user, r.sid)]
       /\ requests' = [requests EXCEPT ![n].pc = "completeDomain"]
       /\ UNCHANGED <<sessions, lastOp, issued, completeCalls>>
       /\ OutsideDiscovery

\* part_001 lines 221 and 241-243: insertMany rejects, nothing is stored
InsertManyFails ==
  \E n \in 1..Len(requests) :
    /\ requests[n].pc = "insertMany"
    /\ requests' = [requests EXCEPT ![n].pc = "completeDomainFailed"]
    /\ UNCHANGED <<sessions, emailDocs, lastOp, issued, completeCalls>>
    /\ OutsideDiscovery

\* part_001 lines 225-250 with part_000 lines 1173-1200: completeDomain is
\* saved and the request answered
DomainCompleted(n, emailsCount, errorMessage, code) ==
  LET r == requests[n]
  IN /\ sessions' = [sessions EXCEPT
                       ![r.sid] = completedSession(@, r.copy, r.idx, emailsCount,
                                                   errorMessage)]
     /\ completeCalls' = [completeCalls EXCEPT ![r.sid][r.idx + 1] = @ + 1]
     /\ requests' = RemoveAt(requests, n)
     /\ lastOp' = Op("processDomain", r.user, r.sid, <<>>, code)
     /\ UNCHANGED <<emailDocs, issued>>
     /\ OutsideDiscovery

\* part_001 lines 225-239
CompleteDomainSaved ==
  \E n \in 1..Len(requests) :
    /\ requests[n].pc = "completeDomain"
    /\ DomainCompleted(n, Len(requests[n].limited), "none", "ok")

\* part_001 lines 241-250
FailedDomainSaved ==
  \E n \in 1..Len(requests) :
    /\ requests[n].pc = "completeDomainFailed"
    /\ DomainCompleted(n, 0, "insertMany failed", "failed")

\* part_001 lines 263-303
GetSessionStatus ==
  \E user \in Users, sid \in 1..Len(sessions) :
    /\ Answered("getSessionStatus", user, sid, <<>>,
                IF findSession(user, sid) THEN "ok" ELSE "notFound")

\* part_001 lines 306-375
GetSessionEmails ==
  \E user \in Users, sid \in 1..Len(sessions) :
    /\ Answered("getSessionEmails", user, sid, <<>>,
                IF findSession(user, sid) THEN "ok" ELSE "notFound")

\* part_001 lines 472-477: findOne with status in pending, processing
findActiveSession(userId, sid) ==
  findSession(userId, sid) /\ sessions[sid].status \in {"pending", "processing"}

\* part_001 lines 479-484
CancelRejected ==
  \E user \in Users, sid \in 1..Len(sessions) :
    /\ ~findActiveSession(user, sid)
    /\ Answered("cancelSession", user, sid, <<>>, "notFound")

\* part_001 lines 472-486: found; the handler awaits session.cancelSession()
CancelFound ==
  \E user \in Users, sid \in 1..Len(sessions) :
    /\ CanIssue
    /\ findActiveSession(user, sid)
    /\ Suspended(Request("cancelSession", user, sid, 0, 0, "cancelSave",
                         sessions[sid], FALSE))

\* part_000 lines 1242-1248 and part_001 lines 488-495
CancelSaved ==
  \E n \in 1..Len(requests) :
    LET r == requests[n]
    IN /\ r.pc = "cancelSave"
       /\ sessions' = [sessions EXCEPT ![r.sid].status = "cancelled"]
       /\ requests' = RemoveAt(requests, n)
       /\ lastOp' = Op("cancelSession", r.user, r.sid, <<>>, "ok")
       /\ UNCHANGED <<emailDocs, issued, completeCalls>>
       /\ OutsideDiscovery

\* part_001 lines 519-524
DeleteRejected ==
  \E user \in Users, sid \in 1..Len(sessions) :
    /\ ~findSession(user, sid)
    /\ Answered("deleteSession", user, sid, <<>>, "notFound")

\* part_001 lines 513-528: found; the handler sets isDeleted and awaits save()
DeleteFound ==
  \E user \in Users, sid \in 1..Len(sessions) :
    /\ CanIssue
    /\ findSession(user, sid)
    /\ Suspended(Request("deleteSession", user, sid, 0, 0, "deleteSave",
                         [sessions[sid] EXCEPT !.isDeleted = TRUE], FALSE))

\* part_001 lines 527-534: save() writes isDeleted; the handler awaits updateMany
DeleteSaved ==
  \E n \in 1..Len(requests) :
    LET r == requests[n]
    IN /\ r.pc = "deleteSave"
       /\ sessions' = [sessions EXCEPT ![r.sid].isDeleted = TRUE]
       /\ requests' = [requests EXCEPT ![n].pc = "deleteEmails"]
       /\ UNCHANGED <<emailDocs, lastOp, issued, completeCalls>>
       /\ OutsideDiscovery

\* an updateMany that removes the documents
softDeleted_removed(docs, selected) ==
  LET kept == SelectSeq(Indexes(docs), LAMBDA k : k \notin selected)
  IN [n \in 1..Len(kept) |-> docs[kept[n]]]

\* updateMany(filter, {isDeleted: true}) on the documents the filter selects
softDeleted(docs, selected) ==
  [k \in 1..Len(docs) |->
     IF k \in selected THEN [docs[k] EXCEPT !.isDeleted = TRUE] ELSE docs[k]]

\* part_001 lines 531-539
DeleteEmailsUpdated ==
  \E n \in 1..Len(requests) :
    LET r == requests[n]
    IN /\ r.pc = "deleteEmails"
       /\ emailDocs' = softDeleted(emailDocs,
                                   {e \in 1..Len(emailDocs) :
                                      emailDocs[e].discoverySession = r.sid})
       /\ requests' = RemoveAt(requests, n)
       /\ lastOp' = Op("deleteSession", r.user, r.sid, <<>>, "ok")
       /\ UNCHANGED <<sessions, issued, completeCalls>>
       /\ OutsideDiscovery

\* emailIds of a bulk request: one id, or two different ids
IdLists ==
  {<<a>> : a \in 1..Len(emailDocs)}
    \cup {ids \in {<<a, b>> : a \in 1..Len(emailDocs), b \in 1..Len(emailDocs)} :
            ids[1] < ids[2]}

IdSet(ids) == {ids[k] : k \in 1..Len(ids)}

\* emailDiscovery.js lines 185-196: find({_id: {$in: emailIds}, discoveredBy,
\* isDeleted: false}) returns as many documents as ids were sent
ownsAll(userId, ids) ==
  Cardinality({e \in IdSet(ids) : findEmail(userId, e)}) = Len(ids)

\* emailDiscovery.js lines 191-196
BulkRejected ==
  \E user \in Users, ids \in IdLists :
    /\ ~ownsAll(user, ids)
    /\ Answered("bulk", user, 0, ids, "notOwned")

\* emailDiscovery.js lines 198-229: the operation on the ids that were found
BulkDone ==
  \E user \in Users, ids \in IdLists, operation \in BulkOperations :
    /\ CanIssue
    /\ ownsAll(user, ids)
    /\ emailDocs' = IF operation = "delete"
                    THEN softDeleted(emailDocs, IdSet(ids))
                    ELSE emailDocs
    /\ lastOp' = Op("bulk", user, 0, ids,
                    IF operation \in {"delete", "verify", "export"} THEN "ok"
                    ELSE "invalidOperation")
    /\ issued' = issued + 1
    /\ UNCHANGED <<sessions, requests, completeCalls>>
    /\ OutsideDiscovery

\* emailVerificationController.js lines 22-45 and 343-354: the answer of
\* verify and re-verify before the provider is called
verifyCheck(op, userId, eid) ==
  IF ~findEmail(userId, eid) THEN "notFound"
  ELSE IF op = "verifyEmail" /\ emailDocs[eid].isVerified THEN "alreadyVerified"
  ELSE "proceed"

VerifyOps == {"verifyEmail", "reverifyEmail"}

\* emailVerificationController.js lines 28-45 and 349-354
VerifyRejected ==
  \E op \in VerifyOps, user \in Users, eid \in 1..Len(emailDocs) :
    /\ verifyCheck(op, user, eid) # "proceed"
    /\ Answered(op, user, 0, <<eid>>, verifyCheck(op, user, eid))

\* emailVerificationController.js lines 47-59 and 356-368: the handler awaits
\* the provider, which finds a generated address deliverable (part_002 lines
\* 71-91 and 105-125), then the update
VerifyFound ==
  \E op \in VerifyOps, user \in Users, eid \in 1..Len(emailDocs) :
    /\ CanIssue
    /\ verifyCheck(op, user, eid) = "proceed"
    /\ Suspended(Request(op, user, 0, 0, eid, "updateVerification", NoSession,
                         TRUE))

\* part_002 lines 230-250 with EmailDiscovery.js lines 138-151: the update
\* looks the email up again, and fails when it is gone by then
VerificationUpdated ==
  \E n \in 1..Len(requests) :
    LET r == requests[n]
    IN /\ r.pc = "updateVerification"
       /\ emailDocs' = IF findEmail(r.user, r.eid)
                       THEN [emailDocs EXCEPT
                               ![r.eid] = verifiedDocument(@, r.deliverable)]
                       ELSE emailDocs
       /\ requests' = RemoveAt(requests, n)
       /\ lastOp' = Op(r.op, r.user, 0, <<r.eid>>,
                       IF findEmail(r.user, r.eid) THEN "ok" ELSE "updateFailed")
       /\ UNCHANGED <<sessions, issued, completeCalls>>
       /\ OutsideDiscovery

\* emailVerificationController.js lines 285-333 with part_002 lines 230-250;
\* the user reports the address undeliverable
ManualVerification ==
  \E user \in Users, eid \in 1..Len(emailDocs) :
    /\ CanIssue
    /\ findEmail(user, eid)
    /\ emailDocs' = [emailDocs EXCEPT ![eid] = verifiedDocument(@, FALSE)]
    /\ lastOp' = Op("updateManualVerification", user, 0, <<eid>>, "ok")
    /\ issued' = issued + 1
    /\ UNCHANGED <<sessions, requests, completeCalls>>
    /\ OutsideDiscovery

\* emailVerificationController.js lines 319-332 with part_002 lines 238-240
ManualVerificationFails ==
  \E user \in Users, eid \in 1..Len(emailDocs) :
    /\ ~findEmail(user, eid)
    /\ Answered("updateManualVerification", user, 0, <<eid>>, "updateFailed")

InitDiscovery ==
  /\ PermuteIdle
  /\ BatchIdle
  /\ DiscoveryIdle

NextDiscovery ==
  \/ StartDiscovery
  \/ ProcessDomainRejected
  \/ ProcessDomainFound
  \/ SaveProcessing
  \/ InsertMany
  \/ InsertManyFails
  \/ CompleteDomainSaved
  \/ FailedDomainSaved
  \/ GetSessionStatus
  \/ GetSessionEmails
  \/ CancelRejected
  \/ CancelFound
  \/ CancelSaved
  \/ DeleteRejected
  \/ DeleteFound
  \/ DeleteSaved
  \/ DeleteEmailsUpdated
  \/ BulkRejected
  \/ BulkDone
  \/ VerifyRejected
  \/ VerifyFound
  \/ VerificationUpdated
  \/ ManualVerification
  \/ ManualVerificationFails

SpecDiscovery == InitDiscovery /\ [][NextDiscovery]_vars


(***************************************************************************)
(* The verification requests on a store that holds the emails of one       *)
(* processed domain, stored once or, after two runs for the domain, twice. *)
(***************************************************************************)
\* the ids in the order find() returns the documents
RECURSIVE Ascending(_)
Ascending(S) ==
  IF S = {} THEN <<>>
  ELSE <<Min(S)>> \o Ascending(S \ {Min(S)})

\* emailVerificationController.js line 125
unverifiedOf(ids) ==
  SelectSeq(Ascending(IdSet(ids)), LAMBDA e : ~emailDocs[e].isVerified)

\* emailVerificationController.js lines 143-144: for each result the first
\* unverified document that carries the email of the result
updateTargetsOf(unverified) ==
  [k \in 1..Len(unverified) |->
     unverified[Min({j \in 1..Len(unverified) :
                      emailDocs[unverified[j]].email = emailDocs[unverified[k]].email})]]

\* emailVerificationController.js lines 96-132: the answer of bulk verify
\* before the provider is called
bulkVerifyCheck(userId, ids) ==
  IF ~ownsAll(userId, ids) THEN "notOwned"
  ELSE IF unverifiedOf(ids) = <<>> THEN "alreadyVerified"
  ELSE "proceed"

\* emailVerificationController.js lines 117-132
BulkVerifyRejected ==
  \E user \in Users, ids \in IdLists :
    /\ bulkVerifyCheck(user, ids) # "proceed"
    /\ Answered("bulkVerifyEmails", user, 0, ids, bulkVerifyCheck(user, ids))

\* emailVerificationController.js lines 110-139: the documents are found; the
\* handler awaits the provider, which finds every address deliverable
BulkVerifyFound ==
  \E user \in Users, ids \in IdLists :
    /\ CanIssue
    /\ bulkVerifyCheck(user, ids) = "proceed"
    /\ Suspended([Request("bulkVerifyEmails", user, 0, 0, 0, "bulkUpdate",
                          NoSession, TRUE)
                    EXCEPT !.ids = unverifiedOf(ids),
                           !.todo = updateTargetsOf(unverifiedOf(ids))])

\* emailVerificationController.js lines 141-165 with part_002 lines 230-250:
\* the next update of the handler; the first update that fails answers 500,
\* the last one answers when none failed
BulkVerificationUpdated ==
  \E n \in 1..Len(requests) :
    LET r == requests[n]
        target == Head(r.todo)
        found == findEmail(r.user, target)
        last == Len(r.todo) = 1
    IN /\ r.pc \in {"bulkUpdate", "bulkUpdateAnswered"}
       /\ emailDocs' = IF found
                       THEN [emailDocs EXCEPT ![target] = verifiedDocument(@, r.deliverable)]
                       ELSE emailDocs
       /\ requests' = IF last THEN RemoveAt(requests, n)
                      ELSE [requests EXCEPT
                              ![n].todo = Tail(r.todo),
                              ![n].pc = IF found THEN r.pc ELSE "bulkUpdateAnswered"]
       /\ lastOp' = IF r.pc = "bulkUpdate" /\ ~found
                    THEN Op(r.op, r.user, 0, r.ids, "updateFailed")
                    ELSE IF r.pc = "bulkUpdate" /\ last
                    THEN Op(r.op, r.user, 0, r.ids, "ok")
                    ELSE lastOp
       /\ UNCHANGED <<sessions, issued, completeCalls>>
       /\ OutsideDiscovery

\* the request of StartBodies with first and last name
VerificationBody == CHOOSE body \in StartBodies : body.formData = FormFull

\* part_001 lines 75-142 and 145-239: the session of user "u" after its
\* first domain was processed
sessionAfterFirstDomain ==
  LET body == VerificationBody
      started == newSession("u", body.domains, body.formData, body.config)
  IN completedSession([started EXCEPT !.domains[1].status = "processing"], started, 0,
                      Len(limitedEmailsOf(started, started.domains[1].domain)), "none")

\* part_001 lines 204-222: the documents one run for that domain stores
documentsOfFirstDomain ==
  LET session == sessionAfterFirstDomain
      limited == limitedEmailsOf(session, session.domains[1].domain)
  IN [k \in 1..Len(limited) |->
        emailDocumentOf(limited[k], session.domains[1].domain, "u", 1)]

\* the runs that stored the emails of the domain: one, or two at the same time
StoreRuns == {1, 2}

InitVerification ==
  /\ PermuteIdle
  /\ BatchIdle
  /\ sessions = <<sessionAfterFirstDomain>>
  /\ \E runs \in StoreRuns :
       /\ emailDocs = IF runs = 1 THEN documentsOfFirstDomain
                      ELSE documentsOfFirstDomain \o documentsOfFirstDomain
       /\ completeCalls = <<[k \in 1..Len(sessionAfterFirstDomain.domains) |->
                               IF k = 1 THEN runs ELSE 0]>>
  /\ requests = <<>>
  /\ lastOp = NoOp
  /\ issued = 0

NextVerification ==
  \/ VerifyRejected
  \/ VerifyFound
  \/ VerificationUpdated
  \/ ManualVerification
  \/ ManualVerificationFails
  \/ BulkVerifyRejected
  \/ BulkVerifyFound
  \/ BulkVerificationUpdated

SpecVerification == InitVerification /\ [][NextVerification]_vars


(***************************************************************************)
(* The methods of an email record called one after another, as the test of *)
(* the models calls them, on the records of one processed domain.          *)
(***************************************************************************)
\* EmailDiscovery.js lines 154-158: the fields markAsError saves
markedAsError(doc, errorMessage) ==
  [doc EXCEPT !.status = "error", !.errorMessage = errorMessage]

\* test-email-discovery.js line 304
ErrorMessages == {"Test error message"}

\* test-email-discovery.js lines 277-300: findById, then updateVerification
UpdateVerificationCall ==
  \E eid \in 1..Len(emailDocs), deliverable \in BOOLEAN :
    /\ CanIssue
    /\ emailDocs' = [emailDocs EXCEPT ![eid] = verifiedDocument(@, deliverable)]
    /\ lastOp' = Op("updateVerification", emailDocs[eid].discoveredBy, 0, <<eid>>,
                    IF deliverable THEN "deliverable" ELSE "undeliverable")
    /\ issued' = issued + 1
    /\ UNCHANGED <<sessions, requests, completeCalls>>
    /\ OutsideDiscovery

\* test-email-discovery.js lines 303-305: findById, then markAsError
MarkAsErrorCall ==
  \E eid \in 1..Len(emailDocs), errorMessage \in ErrorMessages :
    /\ CanIssue
    /\ emailDocs' = [emailDocs EXCEPT ![eid] = markedAsError(@, errorMessage)]
    /\ lastOp' = Op("markAsError", emailDocs[eid].discoveredBy, 0, <<eid>>, "marked")
    /\ issued' = issued + 1
    /\ UNCHANGED <<sessions, requests, completeCalls>>
    /\ OutsideDiscovery

NextEmailRecord ==
  \/ UpdateVerificationCall
  \/ MarkAsErrorCall

SpecEmailRecord == InitVerification /\ [][NextEmailRecord]_vars

(***************************************************************************)
(* Generic predicates on candidate lists.                                  *)
(***************************************************************************)
NoDuplicateEmails(list) ==
  \A a, b \in 1..Len(list) : a # b => list[a].email # list[b].email

ConfidenceDescending(list) ==
  \A a \in 1..(Len(list) - 1) : list[a].confidence >= list[a + 1].confidence


(***************************************************************************)
(* Both entry points: a direct call of permute with any argument, or a     *)
(* batch run of processMultipleDomains.                                    *)
(***************************************************************************)
InitAll == InitPermute \/ Init

NextAll == NextPermute \/ Next

SpecAll == InitAll /\ [][NextAll]_vars

\* C1: the list returned by permute and the globalEmails list returned by
\* processMultipleDomains contain no two candidates with the same email
C1_NoDuplicateEmails ==
  /\ (pstatus = "returned" => NoDuplicateEmails(emails))
  /\ \A k \in 1..Len(results) : NoDuplicateEmails(results[k].emails)
  /\ (pc = "done" => NoDuplicateEmails(globalEmails))

\* two candidates of the list before ranking carry the same email
HasCollision(list) ==
  \E a, b \in 1..Len(list) : a # b /\ list[a].email = list[b].email

\* the argument permute received for the k-th result of a batch
batchData(k) == dataOf(formData, results[k].domain, results[k].webhookResponse,
                       [n \in 1..MaxNames |-> 42])

C1_Witness ==
  /\ pc = "done"
  /\ HasCollision(allCombinedEmails)
  /\ Len(globalEmails) > 1
  /\ \E k \in 1..Len(results) :
       /\ results[k].status = "completed"
       /\ HasCollision(allEmailsOf(batchData(k)))
       /\ Len(results[k].emails) > 1


\* the candidates permute generates before any sort or seen-set pass
rawCandidatesOf(d) ==
  allEmailPatternsOf(webhookNamesOf(d), d.domain, cleanDomainOf(d.domain),
                     d.useAdvancedEmails, d.rnd, 1)
    \o (IF customActive(d)
        THEN customEmailsOf(d.selectedCustomNames.items, cleanDomainOf(d.domain))
        ELSE <<>>)

\* every email of before is in after, with a confidence no candidate of
\* before with that email exceeds; after holds candidates of before only
KeepsHighest(before, after) ==
  /\ \A a \in 1..Len(before) : \E b \in 1..Len(after) :
       /\ after[b].email = before[a].email
       /\ after[b].confidence >= before[a].confidence
  /\ \A b \in 1..Len(after) : \E a \in 1..Len(before) : before[a] = after[b]

\* C2: of candidates with the same email and different confidence, the one
\* kept by permute, and in globalEmails, has the higher confidence
C2_HighestConfidenceWins ==
  /\ (pstatus = "returned" => KeepsHighest(rawCandidatesOf(data), emails))
  /\ \A k \in 1..Len(results) :
       results[k].status = "completed"
         => KeepsHighest(rawCandidatesOf(batchData(k)), results[k].emails)
  /\ (pc = "done" => KeepsHighest(allCombinedEmails, globalEmails))

DifferingCollision(list) ==
  \E a, b \in 1..Len(list) :
    list[a].email = list[b].email /\ list[a].confidence # list[b].confidence

\* a custom name collides with a catalog pattern of lower confidence, and the
\* same pattern was produced for two names
C2_Witness ==
  /\ pstatus = "returned"
  /\ \E a \in 1..Len(webhookEmails), b \in 1..Len(allEmails) :
       /\ b > Len(webhookEmails)
       /\ allEmails[b].email = webhookEmails[a].email
       /\ allEmails[b].confidence > webhookEmails[a].confidence
  /\ DifferingCollision(allEmailPatternsOf(webhookNames, data.domain,
                          cleanDomainOf(data.domain), data.useAdvancedEmails,
                          data.rnd, 1))

\* C3: every adjacent pair of an output of permute and of globalEmails is in
\* confidence-descending order
C3_ConfidenceDescending ==
  /\ (pstatus = "returned" => ConfidenceDescending(emails))
  /\ \A k \in 1..Len(results) : ConfidenceDescending(results[k].emails)
  /\ (pc = "done" => ConfidenceDescending(globalEmails))

C3_Witness ==
  /\ pc = "done"
  /\ Len(globalEmails) >= 2
  /\ ~ConfidenceDescending(allCombinedEmails)
  /\ globalEmails[1].confidence > globalEmails[Len(globalEmails)].confidence


(***************************************************************************)
(* The catalog of section 4.1, as the specification lists it.              *)
(***************************************************************************)
CatalogEntry(local, conf) == [local |-> local, confidence |-> conf]

SpecCatalog(first, last) ==
  LET fi == <<first[1]>>
      li == <<last[1]>>
  IN << CatalogEntry(first \o <<".">> \o last, 95),
        CatalogEntry(first, 90),
        CatalogEntry(first \o last, 85),
        CatalogEntry(fi \o last, 80),
        CatalogEntry(last, 75),
        CatalogEntry(first \o <<"-">> \o last, 70),
        CatalogEntry(first \o <<"_">> \o last, 65),
        CatalogEntry(fi \o <<".">> \o last, 60),
        CatalogEntry(fi \o li, 55),
        CatalogEntry(first \o fi, 50),
        CatalogEntry(fi \o <<"-">> \o last, 45),
        CatalogEntry(fi \o <<"_">> \o last, 40),
        CatalogEntry(first \o li, 35),
        CatalogEntry(last \o fi, 30),
        CatalogEntry(fi \o <<".">> \o fi, 25) >>

upToAt(s) ==
  LET ats == {k \in 1..Len(s) : s[k] = "@"}
  IN IF ats = {} THEN s ELSE SubSeq(s, 1, Min(ats) - 1)

localPartOf(email) == upToAt(email)

domainPartOf(email) == SubSeq(email, Len(upToAt(email)) + 2, Len(email))

tokensOf(fullName) == splitBlanks(trim(fullName))

\* the generator's output is the catalog of the name, entry by entry
MatchesCatalog(list, first, last, dom) ==
  LET cat == SpecCatalog(first, last)
  IN /\ Len(list) = 15
     /\ \A k \in 1..15 :
          /\ localPartOf(list[k].email) = cat[k].local
          /\ list[k].confidence = cat[k].confidence
     /\ list[1] = [email |-> first \o <<".">> \o last \o At \o dom, confidence |-> 95]

CatalogLocalsDistinct(first, last) ==
  LET cat == SpecCatalog(first, last)
  IN \A a, b \in 1..15 : a # b => cat[a].local # cat[b].local

\* the generator ran for one name with a first and a last token, advanced
\* patterns disabled
OneFullName ==
  /\ pstatus = "returned"
  /\ ~data.useAdvancedEmails
  /\ Len(webhookNames) = 1
  /\ Len(tokensOf(webhookNames[1])) >= 2

FallbackKinds == {"neterr", "bodyerr", "badjson"}

NoAnswerKinds == {"notok", "nocontent"}

ResolutionFailed(k) == outcomes[k] \in FallbackKinds \cup NoAnswerKinds

ResolutionSucceeded(k) == outcomes[k] = "ok"

\* custom-name parsing (part_006 line 608) or permute (index.js line 140) throws
CustomNamesThrow ==
  \/ formData.selectedCustomNames.kind = "unparsable"
  \/ (formData.useCustomNames /\ formData.selectedCustomNames.kind = "nonarray")

PartialFailure ==
  /\ pc = "done"
  /\ \E k \in 1..Len(outcomes) : ResolutionFailed(k)
  /\ \E k \in 1..Len(outcomes) : ResolutionSucceeded(k)

IsCustomCandidate(c, k) ==
  /\ formData.useCustomNames
  /\ formData.selectedCustomNames.kind = "array"
  /\ \E n \in 1..Len(formData.selectedCustomNames.items) :
       c.email = formData.selectedCustomNames.items[n] \o At
                   \o cleanDomainOf(results[k].domain)

InList(c, list) == \E n \in 1..Len(list) : list[n] = c

\* C6: a domain whose name resolution failed contributes no pattern-generated
\* candidate to its own per-domain list or to globalEmails
C6_FailedDomainContributesNothing ==
  pc = "done" =>
    /\ \A k \in 1..Len(results) :
         ResolutionFailed(k) =>
           \A n \in 1..Len(results[k].emails) :
             IsCustomCandidate(results[k].emails[n], k)
    /\ \A g \in 1..Len(globalEmails) :
         \E k \in 1..Len(results) :
           /\ InList(globalEmails[g], results[k].emails)
           /\ (ResolutionSucceeded(k) \/ IsCustomCandidate(globalEmails[g], k))


(***************************************************************************)
(* The batch: order of calls, result pushes and delays.                    *)
(***************************************************************************)
CountEv(ev, n) == Cardinality({q \in 1..n : log[q].ev = ev})

\* C7: the inter-domain delay is waited between every two consecutive
\* name-resolution calls, also after a domain that ended in error, and not
\* after the last domain
C7_DelayBetweenCalls ==
  /\ \A p \in 1..Len(log) :
       (log[p].ev = "call" /\ log[p].idx > 0)
         => (p > 1 /\ log[p - 1] = Delayed(log[p].idx - 1))
  /\ \A p \in 1..Len(log) :
       log[p].ev = "delay" => log[p].idx < Len(uniqueDomains) - 1

\* C8: at most one domain is in flight, and the call for a domain is issued
\* only after the result entries of all earlier domains have been appended
C8_OneDomainInFlight ==
  /\ CountEv("call", Len(log)) - CountEv("result", Len(log)) \in {0, 1}
  /\ \A p \in 1..Len(log) :
       log[p].ev = "call" =>
         /\ CountEv("call", p - 1) = log[p].idx
         /\ CountEv("result", p - 1) = log[p].idx
  /\ (pc = "fetch" => Len(results) = i)
  /\ CountEv("result", Len(log)) = Len(results)

C8_Witness ==
  /\ pc = "fetch"
  /\ i >= 1
  /\ Len(results) = i
  /\ results[i].status = "error"

\* C9: whatever fails inside single domains, processMultipleDomains terminates
\* without throwing and returns one entry per processed domain, in the order
\* of the domain list.  Termination is by a variant: the process is never at
\* a position without a continuation (entry, an awaited fetch of an existing
\* domain, an awaited delay), every step returns or adds an event to the
\* log, and the log holds at most three events per domain.
C9_AlwaysReturnsAllDomains ==
  /\ [](pc \in {"entry", "fetch", "delay", "done"})
  /\ [](pc = "fetch" => i < Len(uniqueDomains))
  /\ [](Len(log) <= 3 * Len(uniqueDomains))
  /\ [][pc' = "done" \/ Len(log') > Len(log)]_vars
  /\ [](pc = "done" =>
          /\ Len(results) = Len(uniqueDomains)
          /\ \A k \in 1..Len(results) : results[k].domain = uniqueDomains[k])

C9_Witness ==
  /\ pc = "done"
  /\ Len(results) >= 2
  /\ results[1].domain # results[2].domain
  /\ \E k \in 1..Len(results) : results[k].status = "error"


\* C10: every candidate returned by permute, in every tier and for custom
\* names, has the cleaned domain after the "@"
C10_CleanDomainEverywhere ==
  pstatus = "returned" =>
    \A k \in 1..Len(emails) :
      domainPartOf(emails[k].email) = cleanDomainOf(data.domain)


\* C11: every candidate returned by permute has a lower-case local part,
\* whatever the letter case of the resolved names and of the custom names
C11_LowerCaseLocalParts ==
  pstatus = "returned" =>
    \A k \in 1..Len(emails) :
      toLowerCase(localPartOf(emails[k].email)) = localPartOf(emails[k].email)


\* the generator ran for one name that has a first token only
SingleTokenName ==
  /\ pstatus = "returned"
  /\ Len(webhookNames) = 1
  /\ Len(tokensOf(webhookNames[1])) = 1
  /\ ~customActive(data)

\* C12: a name with a first token only yields exactly one candidate,
\* first@domain at confidence 60, and is not expanded through the catalog
C12_PartialNameDegrades ==
  SingleTokenName =>
    emails = << Cand(toLowerCase(tokensOf(webhookNames[1])[1]),
                     cleanDomainOf(data.domain), 60) >>


\* lines 129-134: the ranked pattern candidates of the resolved names
patternEmailsOf(d) ==
  IF Len(webhookNamesOf(d)) > 0
  THEN generateRankedEmails(webhookNamesOf(d), d.domain, cleanDomainOf(d.domain),
                            d.useAdvancedEmails, d.rnd)
  ELSE <<>>

\* every custom name of d is in out as name@cleanDomain at confidence 95, and
\* out holds nothing but these and the pattern candidates of the resolved names
CustomNamesBypass(d, out) ==
  LET items == d.selectedCustomNames.items
      clean == cleanDomainOf(d.domain)
  IN /\ \A n \in 1..Len(items) : InList(Cand(items[n], clean, 95), out)
     /\ \A k \in 1..Len(out) :
          \/ InList(out[k], patternEmailsOf(d))
          \/ \E n \in 1..Len(items) : out[k] = Cand(items[n], clean, 95)

\* C13: with useCustomNames true, for every custom name c and both values of
\* useAdvancedEmails, the output of permute contains c@cleanDomain at
\* confidence 95, and c gives no other candidate
C13_CustomNamesBypassCatalog ==
  /\ (pstatus = "returned" /\ data.useCustomNames) => CustomNamesBypass(data, emails)
  /\ \A k \in 1..Len(results) :
       (results[k].status = "completed" /\ formData.useCustomNames)
         => CustomNamesBypass(batchData(k), results[k].emails)

C13_Witness ==
  /\ pstatus = "returned"
  /\ customActive(data)
  /\ data.useAdvancedEmails
  /\ Len(webhookEmails) > 0
  /\ \E k \in 1..Len(emails) :
       emails[k].confidence = 95 /\ ~InList(emails[k], webhookEmails)
  /\ \E k \in 1..Len(emails) : emails[k].confidence = 5


\* section 4.2: rank, the sort followed by the seen-set pass
rank(list) == uniqueEmailsWithConfidenceOf(list)

\* C14: feeding a ranked list back through the ranking step returns the same
\* list, element for element and in the same order
C14_RankIdempotent ==
  /\ (pstatus = "returned" =>
        /\ rank(emails) = emails
        /\ rank(webhookEmails) = webhookEmails)
  /\ \A k \in 1..Len(results) : rank(results[k].emails) = results[k].emails
  /\ (pc = "done" => rank(globalEmails) = globalEmails)

\* the ranked list differs from its input and holds two different emails of
\* the same confidence
C14_Witness ==
  /\ pstatus = "returned"
  /\ HasCollision(allEmails)
  /\ emails # allEmails
  /\ \E a, b \in 1..Len(emails) :
       a # b /\ emails[a].confidence = emails[b].confidence


\* what the generator returns for the names of the call with the draws r
generatedWith(r) ==
  generateRankedEmails(webhookNames, data.domain, cleanDomainOf(data.domain),
                       data.useAdvancedEmails, r)

AllDraws == [1..MaxNames -> RandChoices]

\* a list without its random-suffix candidates (confidence 5)
withoutRandomSuffix(list) == SelectSeq(list, LAMBDA c : c.confidence # 5)

\* C15 as claimed: a second invocation of the generator with the same names,
\* domain and useAdvancedEmails returns the list the first returned, for
\* useAdvancedEmails false and true
C15_Original ==
  (pstatus = "returned" /\ Len(webhookNames) > 0) =>
    \A r \in AllDraws : generatedWith(r) = webhookEmails

\* C15 amended: a second invocation returns the same list when
\* useAdvancedEmails is false, and when it is true a list that is the same
\* once the random-suffix candidates (confidence 5) are left out of both
C15_PureApartFromRandomSuffix ==
  (pstatus = "returned" /\ Len(webhookNames) > 0) =>
    \A r \in AllDraws :
      IF data.useAdvancedEmails
      THEN withoutRandomSuffix(generatedWith(r)) = withoutRandomSuffix(webhookEmails)
      ELSE generatedWith(r) = webhookEmails

C15_Witness ==
  /\ pstatus = "returned"
  /\ data.useAdvancedEmails
  /\ Len(webhookNames) = MaxNames
  /\ \E r \in AllDraws : generatedWith(r) # webhookEmails
  /\ Len(withoutRandomSuffix(webhookEmails)) < Len(webhookEmails)



(***************************************************************************)
(* Claims on the discovery sessions.                                       *)
(***************************************************************************)
DomainsOf(sid) == 1..Len(sessions[sid].domains)

\* the moves of a domain status that the state machine allows
DomainStatusStep(before, after) ==
  \/ after = before
  \/ before = "pending" /\ after = "processing"
  \/ before = "processing" /\ after \in {"completed", "error"}

\* C16: under any sequence of requests the status of a domain only moves
\* from pending to processing and from processing to completed or error, a
\* completed or failed domain never changes again, and no domain is completed
\* a second time
C16_DomainStatusOneWay ==
  /\ [][\A sid \in 1..Len(sessions) : \A k \in DomainsOf(sid) :
          DomainStatusStep(sessions[sid].domains[k].status,
                           sessions'[sid].domains[k].status)]_vars
  /\ [](\A sid \in 1..Len(sessions) : \A k \in DomainsOf(sid) :
          completeCalls[sid][k] <= 1)

\* completeDomain has been applied exactly once to every domain of the session
EachDomainCompletedOnce(sid) ==
  \A k \in DomainsOf(sid) : completeCalls[sid][k] = 1

\* completeDomain has been applied at most once to each domain, and not yet
\* to all of them
SomeDomainUnfinished(sid) ==
  /\ \A k \in DomainsOf(sid) : completeCalls[sid][k] <= 1
  /\ \E k \in DomainsOf(sid) : completeCalls[sid][k] = 0

\* C17: in a started session that was not cancelled, once completeDomain has
\* been applied once to each of the N domains the session is completed and
\* processedDomains is N, and until the last domain is finished the session
\* is still processing
C17_SessionCompletesWithLastDomain ==
  \A sid \in 1..Len(sessions) :
    sessions[sid].status # "cancelled" =>
      /\ EachDomainCompletedOnce(sid)
           => /\ sessions[sid].status = "completed"
              /\ sessions[sid].progress.processedDomains = Len(sessions[sid].domains)
      /\ SomeDomainUnfinished(sid) => sessions[sid].status = "processing"

\* the request was made on a session or an email of another user
ForeignTarget(o) ==
  \/ o.sid \in 1..Len(sessions) /\ sessions[o.sid].userId # o.user
  \/ \E e \in IdSet(o.ids) : e \in 1..Len(emailDocs) /\ emailDocs[e].discoveredBy # o.user

\* the answers that refuse: 404 not found, 400 not owned, 500 access denied
Refusals == {"notFound", "notOwned", "updateFailed"}

\* a suspended handler works on records of the user who sent the request
HandlerOnOwnRecords(r) ==
  /\ r.sid # 0 => sessions[r.sid].userId = r.user
  /\ r.eid # 0 => emailDocs[r.eid].discoveredBy = r.user

\* C18: every request of a user on a session or an email of another user is
\* refused, no handler is started for it, and the step that answers it leaves
\* every session and every email record as it was
C18_UserIsolation ==
  /\ [](/\ (lastOp # NoOp /\ ForeignTarget(lastOp)) => lastOp.code \in Refusals
        /\ \A n \in 1..Len(requests) : HandlerOnOwnRecords(requests[n]))
  /\ [][(lastOp' # lastOp /\ ForeignTarget(lastOp)')
          => UNCHANGED <<sessions, emailDocs, requests>>]_vars

\* a delete request of the other user was refused while the session and its
\* stored emails are there
C18_Witness ==
  /\ lastOp.op = "deleteSession"
  /\ ForeignTarget(lastOp)
  /\ lastOp.code = "notFound"
  /\ ~sessions[lastOp.sid].isDeleted
  /\ \E e \in 1..Len(emailDocs) :
       emailDocs[e].discoverySession = lastOp.sid /\ ~emailDocs[e].isDeleted

EmailsOfSession(sid) ==
  {e \in 1..Len(emailDocs) : emailDocs[e].discoverySession = sid}

\* the session and all the emails stored for it are marked deleted
MarkedDeleted(sid) ==
  /\ sessions[sid].isDeleted
  /\ \A e \in EmailsOfSession(sid) : emailDocs[e].isDeleted

\* every record of the state before the step is still there after it
RecordsKept ==
  /\ Len(sessions') >= Len(sessions)
  /\ Len(emailDocs') >= Len(emailDocs)
  /\ \A sid \in 1..Len(sessions) : sessions'[sid].userId = sessions[sid].userId
  /\ \A e \in 1..Len(emailDocs) :
       /\ emailDocs'[e].email = emailDocs[e].email
       /\ emailDocs'[e].discoverySession = emailDocs[e].discoverySession

\* the step answers a request that arrived in this very step
AnswersNewRequest == lastOp' # lastOp /\ requests' = requests

\* the step starts a handler for a request that arrived in this very step
StartsHandler == Len(requests') > Len(requests)

SessionOps ==
  {"getSessionStatus", "getSessionEmails", "processDomain", "cancelSession",
   "deleteSession"}

\* C19: no step removes a record; when deleteSession answers, the session and
\* every email stored for it are marked isDeleted; and a status, emails,
\* process-domain, cancel or delete request that arrives for a session marked
\* deleted is answered 'not found', starts no handler and changes no record
C19_DeleteOnlyMarks ==
  [][/\ RecordsKept
     /\ \A sid \in 1..Len(sessions) :
          (lastOp' # lastOp /\ lastOp' = Op("deleteSession", sessions[sid].userId,
                                           sid, <<>>, "ok"))
            => MarkedDeleted(sid)'
     /\ (AnswersNewRequest /\ lastOp'.op \in SessionOps
           /\ sessions[lastOp'.sid].isDeleted)
          => /\ lastOp'.code = "notFound"
             /\ UNCHANGED <<sessions, emailDocs>>
     /\ (StartsHandler /\ requests'[Len(requests')].sid # 0)
          => ~sessions[requests'[Len(requests')].sid].isDeleted]_vars

\* the owner asked to process a domain of a session that was deleted together
\* with its stored emails, and was answered 'not found'
C19_Witness ==
  /\ lastOp.op = "processDomain"
  /\ lastOp.code = "notFound"
  /\ sessions[lastOp.sid].userId = lastOp.user
  /\ MarkedDeleted(lastOp.sid)
  /\ EmailsOfSession(lastOp.sid) # {}
  /\ requests = <<>>

\* the domain a processDomain handler works on
domainOfRequest(r) == r.copy.domains[r.idx + 1].domain

\* C20: the list generateEmails returns to processDomain holds every
\* generated email once, with the highest confidence of the candidates that
\* carry it, in descending order of confidence
C20_GeneratorKeepsHighest ==
  \A n \in 1..Len(requests) :
    requests[n].op = "processDomain" =>
      LET fd == requests[n].copy.formData
          domain == domainOfRequest(requests[n])
      IN /\ NoDuplicateEmails(generateEmails(fd, domain))
         /\ KeepsHighest(generatedCandidatesOf(fd, domain), generateEmails(fd, domain))
         /\ ConfidenceDescending(generateEmails(fd, domain))

(***************************************************************************)
(* Claims on the aggregation of the resolved names.                        *)
(***************************************************************************)
\* lines 20-22 and 31-33: the names the collaborator returned non-null
resolvedNamesOf(d) ==
  IF d.webhookResponse.kind \in {"json", "markdown"}
  THEN namesOfValues(d.webhookResponse.values)
  ELSE <<>>

\* every candidate of list is in out with a confidence at least as high
CoveredBy(list, out) ==
  \A a \in 1..Len(list) : \E b \in 1..Len(out) :
    /\ out[b].email = list[a].email
    /\ out[b].confidence >= list[a].confidence

\* C21: for every name the collaborator returned non-null and every value of
\* usePersonalInfo, useCustomNames and useAdvancedEmails, the output of
\* permute holds each pattern candidate of that name, at its confidence or at
\* the higher confidence of a duplicate
C21_ResolvedNamesAggregated ==
  pstatus = "returned" =>
    CoveredBy(allEmailPatternsOf(resolvedNamesOf(data), data.domain,
                                 cleanDomainOf(data.domain),
                                 data.useAdvancedEmails, data.rnd, 1),
              emails)

(***************************************************************************)
(* Claims on the counters of a session.                                    *)
(***************************************************************************)
\* no processDomain handler of the session is suspended
NoDomainInFlight(sid) ==
  \A n \in 1..Len(requests) :
    ~(requests[n].op = "processDomain" /\ requests[n].sid = sid)

RECURSIVE SumEmailsCount(_)
SumEmailsCount(domains) ==
  IF domains = <<>> THEN 0
  ELSE domains[1].emailsCount + SumEmailsCount(Tail(domains))

\* the email records stored for the k-th domain of the session
StoredFor(sid, k) ==
  {e \in EmailsOfSession(sid) : emailDocs[e].domain = sessions[sid].domains[k].domain}

FinishedDomains(sid) ==
  {k \in DomainsOf(sid) : sessions[sid].domains[k].status \in {"completed", "error"}}

\* C22: once the processDomain requests of a session have been answered, the
\* emailsCount of each completed domain is the number of email records stored
\* for it, totalEmailsDiscovered is the sum of emailsCount over the domains,
\* and processedDomains is the number of domains completed or failed
C22_CountersAgree ==
  \A sid \in 1..Len(sessions) :
    NoDomainInFlight(sid) =>
      /\ \A k \in DomainsOf(sid) :
           sessions[sid].domains[k].status = "completed"
             => sessions[sid].domains[k].emailsCount = Cardinality(StoredFor(sid, k))
      /\ sessions[sid].progress.totalEmailsDiscovered
           = SumEmailsCount(sessions[sid].domains)
      /\ sessions[sid].progress.processedDomains = Cardinality(FinishedDomains(sid))

\* C23: of the processDomain requests in flight for the same session and the
\* same domain index at most one stores email records and completes the
\* domain: the emails of a domain are stored once, and completeDomain is
\* applied to it once
C23_DomainProcessedOnce ==
  \A sid \in 1..Len(sessions) : \A k \in DomainsOf(sid) :
    /\ \A a, b \in StoredFor(sid, k) :
         a # b => emailDocs[a].email # emailDocs[b].email
    /\ completeCalls[sid][k] <= 1

\* C24: a session that is cancelled stays cancelled and gets no further email
\* record, also when a processDomain request was in flight at the time of the
\* cancel, and the step that cancels it leaves the status and the emailsCount
\* of its completed domains as they were
C24_CancelledStaysCancelled ==
  [][\A sid \in 1..Len(sessions) :
       /\ sessions[sid].status = "cancelled"
            => /\ sessions'[sid].status = "cancelled"
               /\ EmailsOfSession(sid)' = EmailsOfSession(sid)
       /\ (sessions[sid].status # "cancelled" /\ sessions'[sid].status = "cancelled")
            => \A k \in DomainsOf(sid) :
                 sessions[sid].domains[k].status = "completed"
                   => sessions'[sid].domains[k] = sessions[sid].domains[k]]_vars

(***************************************************************************)
(* Claims on the limits of a session.                                      *)
(***************************************************************************)
\* the value the caller supplied, and the default when there is none
asSupplied(x, dflt) == IF x.given THEN x.value ELSE dflt

\* the session was created from the body with its limits as supplied
CreatedAsSupplied(session, body) ==
  /\ session.formData = body.formData
  /\ Len(session.domains) = Len(body.domains)
  /\ session.config.confidenceThreshold
       = asSupplied(body.config.confidenceThreshold, DefaultConfidenceThreshold)
  /\ session.config.maxEmailsPerDomain
       = asSupplied(body.config.maxEmailsPerDomain, DefaultMaxEmailsPerDomain)

\* the records stored for the k-th domain are within the limits of the
\* session and are the highest-confidence candidates that pass the threshold
StoredWithinLimits(sid, k) ==
  LET session == sessions[sid]
      stored == StoredFor(sid, k)
      cands == generatedCandidatesOf(session.formData, session.domains[k].domain)
  IN /\ \A e \in stored :
          emailDocs[e].confidence >= session.config.confidenceThreshold
     /\ Cardinality(stored) <= session.config.maxEmailsPerDomain
     /\ session.domains[k].status = "completed" =>
          \A a \in 1..Len(cands) :
            cands[a].confidence >= session.config.confidenceThreshold =>
              \/ \E e \in stored : /\ emailDocs[e].email = cands[a].email
                                   /\ emailDocs[e].confidence >= cands[a].confidence
              \/ /\ Cardinality(stored) >= session.config.maxEmailsPerDomain
                 /\ \A e \in stored : emailDocs[e].confidence >= cands[a].confidence

\* C25: a session keeps the confidenceThreshold and maxEmailsPerDomain the
\* caller supplied, 0 included, and the defaults 25 and 100 only when none
\* was supplied; every record stored has at least that confidence, a domain
\* has at most maxEmailsPerDomain records, and they are the candidates of
\* the highest confidence
C25_LimitsAsSupplied ==
  /\ [][Len(sessions') > Len(sessions)
          => \E body \in StartBodies :
               CreatedAsSupplied(sessions'[Len(sessions')], body)]_vars
  /\ [](\A sid \in 1..Len(sessions) : \A k \in DomainsOf(sid) :
          StoredWithinLimits(sid, k))

(***************************************************************************)
(* Claims on the domain list of a batch.                                   *)
(***************************************************************************)
\* the domains for which the name-resolution collaborator was called, in order
calledDomains ==
  LET calls == SelectSeq(log, LAMBDA ev : ev.ev = "call")
  IN [n \in 1..Len(calls) |-> uniqueDomains[calls[n].idx + 1]]

NoRepeat(seq) == \A a, b \in 1..Len(seq) : a # b => seq[a] # seq[b]

\* C26: the domains a batch processes are pairwise different after cleaning:
\* the collaborator is called at most once per cleaned domain and the
\* per-domain results hold at most one entry per cleaned domain
C26_DomainsProcessedOnce ==
  pc # "entry" =>
    /\ NoRepeat(uniqueDomains)
    /\ NoRepeat(calledDomains)
    /\ NoRepeat([k \in 1..Len(results) |-> results[k].domain])

(***************************************************************************)
(* C27: a verify request for an email that is already verified is refused  *)
(* and leaves the record as it was, and the verification result of a       *)
(* verified record is replaced only by a re-verify request or by a manual  *)
(* verification.                                                           *)
(***************************************************************************)
\* the step answers a verify request for a verified record of the caller
AnswersVerifyOfVerified ==
  /\ AnswersNewRequest
  /\ lastOp'.op = "verifyEmail"
  /\ findEmail(lastOp'.user, lastOp'.ids[1])
  /\ emailDocs[lastOp'.ids[1]].isVerified

\* the step is the update of request n, which writes a result to record eid
UpdateWrites(n, eid) ==
  /\ \/ /\ requests[n].pc = "updateVerification"
        /\ requests[n].eid = eid
     \/ /\ requests[n].pc \in {"bulkUpdate", "bulkUpdateAnswered"}
        /\ Head(requests[n].todo) = eid
  /\ findEmail(requests[n].user, eid)
  /\ \/ requests' = RemoveAt(requests, n)
     \/ /\ Len(requests[n].todo) > 1
        /\ Len(requests') = Len(requests)
        /\ requests'[n].todo = Tail(requests[n].todo)

\* the step is a manual verification
ManualStep ==
  /\ requests' = requests
  /\ issued' = issued + 1
  /\ lastOp'.op = "updateManualVerification"

C27Rejected ==
  [][AnswersVerifyOfVerified =>
       lastOp'.code = "alreadyVerified" /\ emailDocs' = emailDocs]_vars

C27_VerifiedResultKept ==
  /\ C27Rejected
  /\ [][\A eid \in 1..Len(emailDocs) :
          emailDocs[eid].isVerified =>
            /\ \A n \in 1..Len(requests) :
                 UpdateWrites(n, eid) => requests[n].op = "reverifyEmail"
            /\ emailDocs'[eid] # emailDocs[eid] =>
                 \/ ManualStep
                 \/ \E n \in 1..Len(requests) :
                      UpdateWrites(n, eid) /\ requests[n].op = "reverifyEmail"]_vars

(***************************************************************************)
(* C29: when a bulk verify request is answered with success, every record  *)
(* it selected that was unverified when the request read them is verified, *)
(* also when two of them carry the same email string; the updates of the   *)
(* request write to no other record.                                       *)
(***************************************************************************)
\* the step is the last update of bulk verify request n and answers success
BulkVerifySucceeds(n) ==
  /\ requests[n].op = "bulkVerifyEmails"
  /\ requests[n].pc = "bulkUpdate"
  /\ requests' = RemoveAt(requests, n)
  /\ lastOp'.code = "ok"

\* the step is an update of bulk verify request n
BulkVerifyUpdates(n) ==
  /\ requests[n].op = "bulkVerifyEmails"
  /\ \/ requests' = RemoveAt(requests, n)
     \/ /\ Len(requests') = Len(requests)
        /\ requests'[n].todo = Tail(requests[n].todo)

C29_BulkVerifyMarksAll ==
  [][\A n \in 1..Len(requests) :
       /\ BulkVerifySucceeds(n) =>
            \A eid \in IdSet(requests[n].ids) : emailDocs'[eid].isVerified
       /\ BulkVerifyUpdates(n) =>
            \A eid \in 1..Len(emailDocs) :
              eid \notin IdSet(requests[n].ids) => emailDocs'[eid] = emailDocs[eid]]_vars

(***************************************************************************)
(* C28: after any sequence of updateVerification and markAsError calls a   *)
(* record has status 'verified' only if it is verified and its stored      *)
(* result is deliverable; updateVerification makes the record verified     *)
(* with status 'verified' for a deliverable result and 'invalid'           *)
(* otherwise, and markAsError sets the status to 'error'.                  *)
(***************************************************************************)
VerifiedStatusIsBacked ==
  \A eid \in 1..Len(emailDocs) :
    emailDocs[eid].status = "verified" =>
      emailDocs[eid].isVerified /\ emailDocs[eid].deliverable

\* the step is a call of the method op on the record lastOp' names
CallOf(op) == issued' = issued + 1 /\ lastOp'.op = op

UpdateVerificationSets ==
  CallOf("updateVerification") =>
    LET doc == emailDocs'[lastOp'.ids[1]]
    IN /\ doc.isVerified
       /\ doc.deliverable = (lastOp'.code = "deliverable")
       /\ doc.status = IF lastOp'.code = "deliverable" THEN "verified" ELSE "invalid"

MarkAsErrorSets ==
  CallOf("markAsError") =>
    LET eid == lastOp'.ids[1]
    IN /\ emailDocs'[eid].status = "error"
       /\ emailDocs'[eid].isVerified = emailDocs[eid].isVerified
       /\ emailDocs'[eid].deliverable = emailDocs[eid].deliverable

C28_StatusFollowsVerification ==
  /\ []VerifiedStatusIsBacked
  /\ [][UpdateVerificationSets /\ MarkAsErrorSets]_vars

\* a record marked as error is verified again with a deliverable result while
\* another record is in status 'error'
C28_Witness ==
  /\ lastOp.op = "updateVerification"
  /\ lastOp.code = "deliverable"
  /\ emailDocs[lastOp.ids[1]].status = "verified"
  /\ issued >= 3
  /\ \E eid \in 1..Len(emailDocs) :
       emailDocs[eid].status = "error" /\ emailDocs[eid].isVerified

====
